---- MODULE Spec2Model ----
(***************************************************************************)
(* A model of ceph_deploy/osd.py: the prepare/create driver, the bootstrap *)
(* keyring distribution, the construction of the ceph-volume command and   *)
(* the OSD health check.                                                   *)
(*                                                                         *)
(* Python values are modelled as follows.  None is the string None below;  *)
(* a JSON value is a record [t, v] whose tag t is "int", "str", "bool",    *)
(* "null" or "list"; a JSON object is a function from its keys to values.  *)
(***************************************************************************)
EXTENDS Integers, Sequences, FiniteSets, TLC

\* ------------------------------------------------------------------ bounds
MaxRuns == 2        \* invocations of the tool in one behaviour
MaxOsds == 3        \* largest OSD count a status payload reports
MaxTuples == 2      \* longest args.disk list
MaxOsdDirs == 2     \* most entries in a host's OSD directory
MaxLines == 2       \* most lines of a disk listing
MaxLineLen == 3     \* most pieces (words and separators) in a line of a disk listing

\* --------------------------------------------------------- python values
None == "<None>"

\* Python truthiness of an optional string (None and '' are false)
Truthy(x) == x # None /\ x # ""

Hosts == {"h1", "h2"}
DataVals == {None, "/dev/sdb"}
JournalVals == {None, "", "/dev/sdj"}
WalVals == {None, "/dev/wal"}
DbVals == {None, "/dev/db"}
Clusters == {"ceph"}
KeyBytes == {"key-A", "key-B"}

VARIABLES
    runs,        \* number of invocations started so far
    subcommand,  \* args.subcommand of the current invocation
    args,        \* the parsed command line of the current invocation
    localKey,    \* content of <cluster>.bootstrap-osd.keyring on the admin node, or None
    pc,          \* position of the control thread inside the current invocation
    key,         \* local variable key of prepare
    errors,      \* local variable errors of prepare
    errorLog,    \* the exceptions logged by LOG.error at line 302, in order
    bootstrapped,\* local variable bootstrapped of prepare
    sessions,    \* hosts with an open remote connection
    events,      \* remote operations and log lines of the current invocation, in order
    result,      \* how the invocation ended: "running", "ok", or the exception that left it
    keyring,     \* per host: content of /var/lib/ceph/bootstrap-osd/<cluster>.keyring, or None
    keyWrites,   \* per host: completed write_keyring calls
    warnings,    \* logger.warning lines of the current invocation, in order
    rawStatus,   \* what remoto.process.check returned for the last status/tree query
    status,      \* what osd_status_check / osd_tree returned for it
    idx,         \* position of the loop over args.disk (1-based)
    distro_init, \* distro.init of the host connected to
    osd_dirs,    \* osd_list: the entries of the current host's OSD directory
    output,      \* osd_list: the lines `ceph-disk list` printed on the current host
    oidx,        \* osd_list: position of the loop over the entries (1-based)
    records,     \* osd_list: the records print_osd logged for the current host
    osd_name,    \* osd_list: the name 'osd.<id>' derived from the current entry
    mount        \* what the last call of get_osd_mount_point returned or raised

\* the variables of the loops over args.disk
loopVars == <<idx, distro_init, osd_dirs, output, oidx, records, osd_name, mount>>

vars == <<runs, subcommand, args, localKey, pc, key, errors, errorLog, bootstrapped,
          sessions, events, result, keyring, keyWrites, warnings, rawStatus, status,
          idx, distro_init, osd_dirs, output, oidx, records, osd_name, mount>>

\* ------------------------------------------------------------ JSON values
JInt(n) == [t |-> "int", v |-> n]
JStr(s) == [t |-> "str", v |-> s]
JBool(b) == [t |-> "bool", v |-> b]
JNull == [t |-> "null", v |-> 0]
JList == [t |-> "list", v |-> 1]      \* a non-empty array, contents not inspected

EmptyDict == [k \in {} |-> JNull]

\* dict.get(k, default)
DictGet(d, k, default) == IF k \in DOMAIN d THEN d[k] ELSE default

\* the decimal literals int() accepts among the strings of the model
DecimalValue == [s \in {"0", "1", "2", "3"} |->
                   CASE s = "0" -> 0 [] s = "1" -> 1 [] s = "2" -> 2 [] s = "3" -> 3]

\* Python int(x): the value, or the exception it raises
PyInt(x) ==
    CASE x.t = "int"  -> [exc |-> None, val |-> x.v]
      [] x.t = "bool" -> [exc |-> None, val |-> IF x.v THEN 1 ELSE 0]
      [] x.t = "str"  -> IF x.v \in DOMAIN DecimalValue
                         THEN [exc |-> None, val |-> DecimalValue[x.v]]
                         ELSE [exc |-> "ValueError", val |-> 0]
      [] OTHER        -> [exc |-> "TypeError", val |-> 0]

\* Python truth value of x, as tested by `if x:`
PyTruth(x) ==
    CASE x.t = "int"  -> x.v # 0
      [] x.t = "bool" -> x.v
      [] x.t = "str"  -> x.v # ""
      [] x.t = "list" -> TRUE
      [] OTHER        -> FALSE

\* ------------------------------------------------ osd_tree, osd_status_check
\* What remoto.process.check hands back: nothing at all (transport timeout),
\* output that is not JSON, JSON that is not an object, or a JSON object.
RawNone == [kind |-> "none", obj |-> EmptyDict]
RawGarbage == [kind |-> "garbage", obj |-> EmptyDict]
RawNonObject == [kind |-> "nonobject", obj |-> EmptyDict]
RawObject(d) == [kind |-> "object", obj |-> d]

\* lines 80-84: convert boolean strings to actual booleans
tree_convert(loaded_json) ==
    [k \in DOMAIN loaded_json |->
        IF loaded_json[k].t = "str" /\ loaded_json[k].v = "true" THEN JBool(TRUE)
        ELSE IF loaded_json[k].t = "str" /\ loaded_json[k].v = "false" THEN JBool(FALSE)
        ELSE loaded_json[k]]

\* status_convert with the second test dropped to a plain else
status_convert_else_true(loaded_json) ==
    [k \in DOMAIN loaded_json |->
        IF loaded_json[k].t = "str" /\ loaded_json[k].v = "true" THEN JBool(TRUE)
        ELSE IF loaded_json[k].t = "str" THEN JBool(FALSE)
        ELSE loaded_json[k]]

\* lines 133-137: convert boolean strings to actual booleans
status_convert(loaded_json) ==
    [k \in DOMAIN loaded_json |->
        IF loaded_json[k].t = "str" /\ loaded_json[k].v = "true" THEN JBool(TRUE)
        ELSE IF loaded_json[k].t = "str" /\ loaded_json[k].v = "false" THEN JBool(FALSE)
        ELSE loaded_json[k]]

\* osd_tree: unpacking None raises TypeError (not handled here), json.loads
\* raises ValueError on garbage (handled), .items() of a non-object raises
\* AttributeError (not handled)
osd_tree(raw) ==
    CASE raw.kind = "none"      -> [exc |-> "TypeError", val |-> EmptyDict]
      [] raw.kind = "garbage"   -> [exc |-> None, val |-> EmptyDict]
      [] raw.kind = "nonobject" -> [exc |-> "AttributeError", val |-> EmptyDict]
      [] OTHER                  -> [exc |-> None, val |-> tree_convert(raw.obj)]

\* osd_status_check without the try/except around remoto.process.check
osd_status_check_unguarded(raw) ==
    CASE raw.kind = "none"      -> [exc |-> "TypeError", val |-> EmptyDict]
      [] raw.kind = "garbage"   -> [exc |-> None, val |-> EmptyDict]
      [] raw.kind = "nonobject" -> [exc |-> "AttributeError", val |-> EmptyDict]
      [] OTHER                  -> [exc |-> None, val |-> status_convert(raw.obj)]

\* osd_status_check: as osd_tree, but the TypeError of a timeout is handled
osd_status_check(raw) ==
    CASE raw.kind = "none"      -> [exc |-> None, val |-> EmptyDict]
      [] raw.kind = "garbage"   -> [exc |-> None, val |-> EmptyDict]
      [] raw.kind = "nonobject" -> [exc |-> "AttributeError", val |-> EmptyDict]
      [] OTHER                  -> [exc |-> None, val |-> status_convert(raw.obj)]

\* ------------------------------------------------------- catch_osd_errors
\* a logger.warning call: the format string and its arguments
Warning(fmt, verb, n, s) == [fmt |-> fmt, verb |-> verb, n |-> n, s |-> s]
PlainWarning(fmt) == Warning(fmt, "", 0, "")

BoolIndex(b) == IF b THEN 1 ELSE 0

\* ['is', 'are'][difference != 1]
IsAre(difference) == <<"is", "are">>[BoolIndex(difference # 1) + 1]

\* "s"[difference != 1:]
PluralS_inverted(difference) == IF BoolIndex(difference # 1) = 0 THEN "s" ELSE ""

\* "s"[difference == 1:]
PluralS(difference) == IF BoolIndex(difference = 1) = 0 THEN "s" ELSE ""

\* lines 156-162
DownWarnings(osds, up_osds) ==
    IF osds > up_osds
    THEN <<Warning("there %s %d OSD%s down", IsAre(osds - up_osds),
                   osds - up_osds, PluralS(osds - up_osds))>>
    ELSE <<>>

\* lines 164-170
OutWarnings(osds, in_osds) ==
    IF osds > in_osds
    THEN <<Warning("there %s %d OSD%s out", IsAre(osds - in_osds),
                   osds - in_osds, PluralS(osds - in_osds))>>
    ELSE <<>>

\* lines 172-173
FullWarnings(full) == IF PyTruth(full) THEN <<PlainWarning("OSDs are full!")>> ELSE <<>>

\* lines 175-176
NearFullWarnings(nearfull) ==
    IF PyTruth(nearfull) THEN <<PlainWarning("OSDs are near full!")>> ELSE <<>>

\* catch_osd_errors: the exception that leaves it (None if it returns) and
\* the warnings it logged
catch_osd_errors(raw) ==
    LET st == osd_status_check(raw)
        osds == PyInt(DictGet(st.val, "num_osds", JInt(0)))
        up_osds == PyInt(DictGet(st.val, "num_up_osds", JInt(0)))
        in_osds == PyInt(DictGet(st.val, "num_in_osds", JInt(0)))
        full == DictGet(st.val, "full", JBool(FALSE))
        nearfull == DictGet(st.val, "nearfull", JBool(FALSE))
    IN  IF st.exc # None THEN [exc |-> st.exc, warned |-> <<>>]
        ELSE IF osds.exc # None THEN [exc |-> osds.exc, warned |-> <<>>]
        ELSE IF up_osds.exc # None THEN [exc |-> up_osds.exc, warned |-> <<>>]
        ELSE IF in_osds.exc # None THEN [exc |-> in_osds.exc, warned |-> <<>>]
        ELSE [exc |-> None,
              warned |-> DownWarnings(osds.val, up_osds.val)
                         \o OutWarnings(osds.val, in_osds.val)
                         \o FullWarnings(full)
                         \o NearFullWarnings(nearfull)]

\* ------------------------------------------------------------ prepare_disk
\* names bound inside prepare_disk: its parameters and its two locals
prepare_disk_locals ==
    {"conn", "cluster", "data", "journal", "zap", "fs_type", "dmcrypt",
     "dmcrypt_dir", "storetype", "block_wal", "block_db", "create",
     "ceph_volume_executable", "args"}

\* names bound at module level: the imports, LOG and the functions
module_globals ==
    {"argparse", "json", "logging", "os", "re", "sys", "time", "dedent",
     "conf", "exc", "hosts", "mon", "constants", "system", "packages",
     "priority", "remoto", "LOG",
     "get_bootstrap_osd_key", "create_osd_keyring", "osd_tree",
     "osd_status_check", "catch_osd_errors", "prepare_disk", "prepare",
     "activate", "disk_zap", "disk_list", "osd_list", "get_osd_mount_point",
     "print_osd", "osd", "disk", "make", "make_disk"}

\* does a name used in prepare_disk resolve, or raise NameError
prepare_disk_resolves(name) == name \in prepare_disk_locals \cup module_globals

\* '--%s' % storetype
StoreFlag(storetype) == IF storetype = "bluestore" THEN "--bluestore" ELSE "--filestore"

\* lines 196-203
base_args(cluster, data, storetype, create) ==
    <<"ceph-volume", "--cluster", cluster, "lvm",
      IF create THEN "create" ELSE "prepare",
      StoreFlag(storetype), "--data", data>>

\* lines 206-207
dmcrypt_args(dmcrypt) == IF dmcrypt THEN <<"--dmcrypt">> ELSE <<>>

\* the journal appended whenever one is given, whatever the backend
store_args_journal_any(journal, storetype, block_wal, block_db) ==
    (IF storetype = "bluestore"
     THEN (IF Truthy(block_wal) THEN <<"--block.wal", block_wal>> ELSE <<>>)
          \o (IF Truthy(block_db) THEN <<"--block.db", block_db>> ELSE <<>>)
     ELSE <<>>)
    \o (IF Truthy(journal) THEN <<"--journal", journal>> ELSE <<>>)

\* lines 211-222, the arguments appended for the backend
store_args(journal, storetype, block_wal, block_db) ==
    IF storetype = "bluestore"
    THEN (IF Truthy(block_wal) THEN <<"--block.wal", block_wal>> ELSE <<>>)
         \o (IF Truthy(block_db) THEN <<"--block.db", block_db>> ELSE <<>>)
    ELSE IF storetype = "filestore"
    THEN <<"--journal", journal>>
    ELSE <<>>

\* lines 218-220
journal_missing(journal, storetype) == storetype = "filestore" /\ ~Truthy(journal)

\* prepare_disk up to the dispatch of the command: the exception raised
\* before it (None if the command is dispatched), the warnings logged and
\* the command
prepare_disk(cluster, data, journal, zap, dmcrypt, storetype, block_wal, block_db, create) ==
    IF zap /\ ~prepare_disk_resolves("logger")
    THEN [exc |-> "NameError", msg |-> "name 'logger' is not defined",
          warned |-> <<>>, argv |-> <<>>]
    ELSE IF dmcrypt /\ ~prepare_disk_resolves("logger")
    THEN [exc |-> "NameError", msg |-> "name 'logger' is not defined",
          warned |-> IF zap
                     THEN <<PlainWarning("zapping is no longer supported when preparing")>>
                     ELSE <<>>,
          argv |-> <<>>]
    ELSE LET warned ==
                 (IF zap
                  THEN <<PlainWarning("zapping is no longer supported when preparing")>>
                  ELSE <<>>)
                 \o (IF dmcrypt
                     THEN <<PlainWarning("dmcrypt is currently not supported")>>
                     ELSE <<>>)
         IN  IF journal_missing(journal, storetype)
             THEN [exc |-> "RuntimeError",
                   msg |-> "A journal lv or GPT partition must be specified when using filestore",
                   warned |-> warned, argv |-> <<>>]
             ELSE [exc |-> None, msg |-> "", warned |-> warned,
                   argv |-> base_args(cluster, data, storetype, create)
                            \o dmcrypt_args(dmcrypt)
                            \o store_args(journal, storetype, block_wal, block_db)]

\* ------------------------------------------------------------ the run
LocalKeyVals == {None, "key-A"}

\* the command lines argparse can produce for `osd prepare` / `osd create`
ArgsSet ==
    [cluster : Clusters, host : Hosts, data : DataVals, journal : JournalVals,
     zap_disk : BOOLEAN, dmcrypt : BOOLEAN, filestore : BOOLEAN,
     block_wal : WalVals, block_db : DbVals, disk : {<<>>}]

\* the status replies the driver is run against
StatusSamples ==
    {RawNone, RawGarbage, RawNonObject, RawObject(EmptyDict),
     RawObject([k \in {"num_osds", "num_up_osds", "num_in_osds", "full", "nearfull"} |->
                  CASE k = "num_osds" -> JInt(2)
                    [] k = "num_up_osds" -> JInt(2)
                    [] k = "num_in_osds" -> JStr("2")
                    [] OTHER -> JStr("false")]),
     RawObject([k \in {"num_osds", "num_up_osds", "num_in_osds", "full", "nearfull"} |->
                  CASE k = "num_osds" -> JInt(3)
                    [] k = "num_up_osds" -> JInt(2)
                    [] k = "num_in_osds" -> JInt(1)
                    [] OTHER -> JStr("true")]),
     RawObject([k \in {"num_osds"} |-> JStr("junk")]),
     RawObject([k \in {"num_osds", "num_up_osds"} |->
                  IF k = "num_osds" THEN JInt(1) ELSE JNull])}

Event(op, host, argv) == [op |-> op, host |-> host, argv |-> argv]

Running == [state |-> "running", exc |-> None, msg |-> "", count |-> 0]
Returned == [state |-> "returned", exc |-> None, msg |-> "", count |-> 0]
Raised(exc, msg, count) == [state |-> "raised", exc |-> exc, msg |-> msg, count |-> count]

\* osd(): lines 546-549
create == subcommand = "create"

\* lines 275-278
storetype == IF args.filestore THEN "filestore" ELSE "bluestore"

\* the base class of exc.NeedDiskError
NeedDiskErrorBase == "RuntimeError"

\* line 301: does `except RuntimeError` catch an exception of this class
CaughtByPrepare(exc) ==
    \/ exc = "RuntimeError"
    \/ exc = "NeedDiskError" /\ NeedDiskErrorBase = "RuntimeError"

\* lines 301-303, or the exception leaves prepare
Raise(exc, msg) ==
    IF CaughtByPrepare(exc)
    THEN /\ errors' = errors + 1
         /\ errorLog' = Append(errorLog, [exc |-> exc, msg |-> msg])
         /\ pc' = "finish"
         /\ result' = result
    ELSE /\ errors' = errors
         /\ errorLog' = errorLog
         /\ pc' = "done"
         /\ result' = Raised(exc, msg, 0)

\* the namespace before the command line is parsed: the argparse defaults
DefaultArgs ==
    [cluster |-> "ceph", host |-> "h1", data |-> None, journal |-> None,
     zap_disk |-> FALSE, dmcrypt |-> FALSE, filestore |-> FALSE,
     block_wal |-> None, block_db |-> None, disk |-> <<>>]

\* get_osd_mount_point has not been called
NoMount == [exc |-> None, val |-> None]

\* the loop variables before any loop has started
LoopInit ==
    /\ idx = 1
    /\ distro_init = None
    /\ osd_dirs = <<>>
    /\ output = <<>>
    /\ oidx = 1
    /\ records = <<>>
    /\ osd_name = None
    /\ mount = NoMount

Init ==
    /\ runs = 1
    /\ subcommand = None
    /\ args = DefaultArgs
    /\ localKey \in LocalKeyVals
    /\ pc = "parse"
    /\ key = None
    /\ errors = 0
    /\ errorLog = <<>>
    /\ bootstrapped = {}
    /\ sessions = {}
    /\ events = <<>>
    /\ result = Running
    /\ keyring \in [Hosts -> {None, "key-old"}]
    /\ keyWrites = [h \in Hosts |-> 0]
    /\ warnings = <<>>
    /\ rawStatus = RawNone
    /\ status = EmptyDict
    /\ LoopInit

\* make, lines 609-736, and osd, lines 546-549: the command line is parsed
\* and prepare is entered with create set by the subcommand
ParseArgs ==
    /\ pc = "parse"
    /\ subcommand' \in {"prepare", "create"}
    /\ args' \in ArgsSet
    /\ pc' = "start"
    /\ UNCHANGED <<runs, localKey, key, errors, errorLog, bootstrapped, sessions, events,
                   result, keyring, keyWrites, warnings, rawStatus, status>>
    /\ UNCHANGED loopVars

\* get_bootstrap_osd_key called inside the try block
GetBootstrapOsdKey_InsideTry ==
    /\ pc = "start"
    /\ IF localKey = None
       THEN /\ Raise("RuntimeError", "bootstrap-osd keyring not found; run 'gatherkeys'")
            /\ key' = key
       ELSE /\ key' = localKey
            /\ pc' = "check_data"
            /\ UNCHANGED <<errors, errorLog, result>>
    /\ UNCHANGED <<runs, subcommand, args, localKey, bootstrapped, sessions,
                   events, keyring, keyWrites, warnings, rawStatus, status>>
    /\ UNCHANGED loopVars

\* get_bootstrap_osd_key, lines 19-28 and 237-241
GetBootstrapOsdKey ==
    /\ pc = "start"
    /\ IF localKey = None
       THEN /\ result' = Raised("RuntimeError",
                                "bootstrap-osd keyring not found; run 'gatherkeys'", 0)
            /\ pc' = "done"
            /\ key' = key
       ELSE /\ key' = localKey
            /\ pc' = "check_data"
            /\ result' = result
    /\ UNCHANGED <<runs, subcommand, args, localKey, errors, errorLog, bootstrapped, sessions,
                   events, keyring, keyWrites, warnings, rawStatus, status>>
    /\ UNCHANGED loopVars

\* hosts.get opens the connection first, the data check follows
CheckDataAndConnect_ConnectFirst ==
    /\ pc = "check_data"
    /\ sessions' = sessions \cup {args.host}
    /\ events' = Append(events, Event("connect", args.host, <<>>))
    /\ IF args.data = None
       THEN Raise("NeedDiskError", args.host)
       ELSE /\ pc' = "write_conf"
            /\ UNCHANGED <<errors, errorLog, result>>
    /\ UNCHANGED <<runs, subcommand, args, localKey, key, bootstrapped,
                   keyring, keyWrites, warnings, rawStatus, status>>
    /\ UNCHANGED loopVars

\* lines 244-257: the data check, then hosts.get opens the connection
CheckDataAndConnect ==
    /\ pc = "check_data"
    /\ IF args.data = None
       THEN /\ Raise("NeedDiskError", args.host)
            /\ UNCHANGED <<sessions, events>>
       ELSE /\ sessions' = sessions \cup {args.host}
            /\ events' = Append(events, Event("connect", args.host, <<>>))
            /\ pc' = "write_conf"
            /\ UNCHANGED <<errors, errorLog, result>>
    /\ UNCHANGED <<runs, subcommand, args, localKey, key, bootstrapped,
                   keyring, keyWrites, warnings, rawStatus, status>>
    /\ UNCHANGED loopVars

\* lines 259-268: first time on this host, write the cluster configuration
WriteConf ==
    /\ pc = "write_conf"
    /\ IF args.host \notin bootstrapped
       THEN /\ bootstrapped' = bootstrapped \cup {args.host}
            /\ events' = Append(events, Event("write_conf", args.host, <<args.cluster>>))
            /\ \E ok \in BOOLEAN :
                 IF ok
                 THEN pc' = "create_osd_keyring" /\ UNCHANGED <<errors, errorLog, result>>
                 ELSE Raise("RuntimeError", "config file exists with different content")
       ELSE /\ pc' = "prepare_disk"
            /\ UNCHANGED <<bootstrapped, events, errors, errorLog, result>>
    /\ UNCHANGED <<runs, subcommand, args, localKey, key, sessions,
                   keyring, keyWrites, warnings, rawStatus, status>>
    /\ UNCHANGED loopVars

\* the existence test dropped: the keyring is written on every call
keyring_absent_always(host) == TRUE

\* line 39: not conn.remote_module.path_exists(path)
keyring_absent(host) == keyring[host] = None

\* create_osd_keyring, lines 31-41 (called at line 270)
CreateOsdKeyring ==
    /\ pc = "create_osd_keyring"
    /\ IF keyring_absent(args.host)
       THEN /\ warnings' = Append(warnings,
                                  PlainWarning("osd keyring does not exist yet, creating one"))
            /\ events' = events \o <<Event("path_exists", args.host, <<args.cluster>>),
                                     Event("write_keyring", args.host, <<args.cluster, key>>)>>
            /\ \E ok \in BOOLEAN :
                 IF ok
                 THEN /\ keyring' = [keyring EXCEPT ![args.host] = key]
                      /\ keyWrites' = [keyWrites EXCEPT ![args.host] = @ + 1]
                      /\ pc' = "prepare_disk"
                      /\ UNCHANGED <<errors, errorLog, result>>
                 ELSE /\ Raise("RuntimeError", "write_keyring failed")
                      /\ UNCHANGED <<keyring, keyWrites>>
       ELSE /\ events' = Append(events, Event("path_exists", args.host, <<args.cluster>>))
            /\ pc' = "prepare_disk"
            /\ UNCHANGED <<warnings, keyring, keyWrites, errors, errorLog, result>>
    /\ UNCHANGED <<runs, subcommand, args, localKey, key, bootstrapped, sessions,
                   rawStatus, status>>
    /\ UNCHANGED loopVars

\* lines 272-293 and prepare_disk, lines 195-227
PrepareDisk ==
    /\ pc = "prepare_disk"
    /\ LET pd == prepare_disk(args.cluster, args.data, args.journal, args.zap_disk,
                              args.dmcrypt, storetype, args.block_wal, args.block_db,
                              create)
       IN  /\ warnings' = warnings \o pd.warned
           /\ IF pd.exc # None
              THEN /\ events' = Append(events, Event("which", args.host, <<"ceph-volume">>))
                   /\ Raise(pd.exc, pd.msg)
              ELSE /\ events' = events \o <<Event("which", args.host, <<"ceph-volume">>),
                                            Event("run", args.host, pd.argv)>>
                   /\ \E ok \in BOOLEAN :
                        IF ok
                        THEN pc' = "sleep" /\ UNCHANGED <<errors, errorLog, result>>
                        ELSE Raise("RuntimeError", "command returned non-zero exit status")
    /\ UNCHANGED <<runs, subcommand, args, localKey, key, bootstrapped, sessions,
                   keyring, keyWrites, rawStatus, status>>
    /\ UNCHANGED loopVars

\* the settle wait left out
Sleep_Skipped ==
    /\ pc = "sleep"
    /\ pc' = "catch_osd_errors"
    /\ UNCHANGED <<runs, subcommand, args, localKey, key, errors, errorLog, bootstrapped,
                   sessions, events, result, keyring, keyWrites, warnings, rawStatus,
                   status>>
    /\ UNCHANGED loopVars

\* line 296: time.sleep(5)
Sleep ==
    /\ pc = "sleep"
    /\ events' = Append(events, Event("sleep", args.host, <<"5">>))
    /\ pc' = "catch_osd_errors"
    /\ UNCHANGED <<runs, subcommand, args, localKey, key, errors, errorLog, bootstrapped, sessions,
                   result, keyring, keyWrites, warnings, rawStatus, status>>
    /\ UNCHANGED loopVars

\* the `ceph osd stat` command of osd_status_check, lines 108-115
StatCommand(cluster) == <<"ceph", "--cluster=" \o cluster, "osd", "stat", "--format=json">>

\* line 297: catch_osd_errors against whatever the status query returns
CatchOsdErrors ==
    /\ pc = "catch_osd_errors"
    /\ \E raw \in StatusSamples :
         LET r == catch_osd_errors(raw)
         IN  /\ rawStatus' = raw
             /\ status' = osd_status_check(raw).val
             /\ events' = events \o <<Event("which", args.host, <<"ceph">>),
                                      Event("check", args.host, StatCommand(args.cluster))>>
             /\ warnings' = warnings \o r.warned
             /\ IF r.exc # None
                THEN Raise(r.exc, "")
                ELSE pc' = "exit" /\ UNCHANGED <<errors, errorLog, result>>
    /\ UNCHANGED <<runs, subcommand, args, localKey, key, bootstrapped, sessions,
                   keyring, keyWrites>>
    /\ UNCHANGED loopVars

\* lines 298-299: distro.conn.exit()
ExitSession ==
    /\ pc = "exit"
    /\ sessions' = sessions \ {args.host}
    /\ events' = Append(events, Event("exit", args.host, <<>>))
    /\ pc' = "finish"
    /\ UNCHANGED <<runs, subcommand, args, localKey, key, errors, errorLog, bootstrapped,
                   result, keyring, keyWrites, warnings, rawStatus, status>>
    /\ UNCHANGED loopVars

\* the count is not looked at: the run returns normally
Finish_IgnoresErrors ==
    /\ pc = "finish"
    /\ result' = Returned
    /\ pc' = "done"
    /\ UNCHANGED <<runs, subcommand, args, localKey, key, errors, errorLog, bootstrapped,
                   sessions, events, keyring, keyWrites, warnings, rawStatus, status>>
    /\ UNCHANGED loopVars

\* lines 305-306
Finish ==
    /\ pc = "finish"
    /\ result' = IF errors # 0
                 THEN Raised("GenericError", "Failed to create %d OSDs", errors)
                 ELSE Returned
    /\ pc' = "done"
    /\ UNCHANGED <<runs, subcommand, args, localKey, key, errors, errorLog, bootstrapped, sessions,
                   events, keyring, keyWrites, warnings, rawStatus, status>>
    /\ UNCHANGED loopVars

\* the operator invokes the tool again; the hosts keep their files, the
\* connections of the finished process are gone
NewRun ==
    /\ pc = "done"
    /\ runs < MaxRuns
    /\ runs' = runs + 1
    /\ subcommand' = None
    /\ args' = DefaultArgs
    /\ localKey' \in LocalKeyVals
    /\ pc' = "parse"
    /\ key' = None
    /\ errors' = 0
    /\ errorLog' = <<>>
    /\ bootstrapped' = {}
    /\ sessions' = {}
    /\ events' = <<>>
    /\ result' = Running
    /\ warnings' = <<>>
    /\ rawStatus' = RawNone
    /\ status' = EmptyDict
    /\ idx' = 1
    /\ distro_init' = None
    /\ osd_dirs' = <<>>
    /\ output' = <<>>
    /\ oidx' = 1
    /\ records' = <<>>
    /\ osd_name' = None
    /\ mount' = NoMount
    /\ UNCHANGED <<keyring, keyWrites>>

\* ------------------------------------------- activate, disk_zap, disk_list
\* the state that only prepare reads or writes
prepareVars == <<runs, localKey, key, errors, errorLog, bootstrapped, keyring, keyWrites>>

\* the state of the inventory loop of osd_list
listVars == <<osd_dirs, output, oidx, records, osd_name, mount>>

\* args.disk: a list of (hostname, disk, journal) tuples
DiskVals == {"/dev/sdb", ""}
DiskTuples(hostnames, disks) == hostnames \X disks \X {None}
DiskLists(hostnames, disks) ==
    UNION {[1..n -> DiskTuples(hostnames, disks)] : n \in 0..MaxTuples}

\* distro.init as hosts.get detects it
InitSystems == {"systemd", "sysvinit", "upstart"}

\* the tuple the loop is at: `for hostname, disk, journal in args.disk`
hostname == args.disk[idx][1]
disk == args.disk[idx][2]

\* an exception that no handler catches leaves the function
Uncaught(exc, msg) ==
    /\ pc' = "done"
    /\ result' = Raised(exc, msg, 0)

\* the loop body is done: the next tuple
NextTuple(loop) ==
    /\ idx' = idx + 1
    /\ pc' = loop

\* osd(), lines 544-554, and disk(), lines 560-572: the function that the
\* subcommand selects is entered with a list of tuples in args.disk; hosts.get
\* is not given an empty host name except where the code tests for it first,
\* and the two list functions never read the disk of a tuple
ParseDiskArgs ==
    /\ pc = "parse"
    /\ \E sc \in {"activate", "disk_zap", "disk_list", "osd_list"} :
         /\ subcommand' = sc
         /\ pc' = sc
         /\ \E d \in DiskLists(IF sc = "disk_zap" THEN Hosts \cup {""} ELSE Hosts,
                                IF sc \in {"disk_list", "osd_list"} THEN {""} ELSE DiskVals) :
              args' = [DefaultArgs EXCEPT !.disk = d]
    /\ UNCHANGED <<sessions, events, result, warnings, rawStatus, status>>
    /\ UNCHANGED <<prepareVars, loopVars>>

\* lines 318-332: the next tuple, hosts.get connects and detects the init system
ActivateConnect ==
    /\ pc = "activate"
    /\ idx <= Len(args.disk)
    /\ sessions' = sessions \cup {hostname}
    /\ events' = Append(events, Event("connect", hostname, <<>>))
    /\ distro_init' \in InitSystems
    /\ pc' = "activate_run"
    /\ UNCHANGED <<subcommand, args, result, warnings, rawStatus, status, idx>>
    /\ UNCHANGED <<prepareVars, listVars>>

\* line 318: the list is exhausted, activate returns
ActivateReturn ==
    /\ pc = "activate"
    /\ idx > Len(args.disk)
    /\ pc' = "done"
    /\ result' = Returned
    /\ UNCHANGED <<subcommand, args, sessions, events, warnings, rawStatus, status>>
    /\ UNCHANGED <<prepareVars, loopVars>>

\* lines 335-347
ActivateCommand(init, mount_arg) ==
    <<"ceph-disk", "-v", "activate", "--mark-init", init, "--mount", mount_arg>>

\* lines 334-347: the activation command; a non-zero exit raises
ActivateRun ==
    /\ pc = "activate_run"
    /\ events' = events \o <<Event("which", hostname, <<"ceph-disk">>),
                             Event("run", hostname, ActivateCommand(distro_init, disk))>>
    /\ \E ok \in BOOLEAN :
         IF ok
         THEN pc' = "activate_sleep" /\ result' = result
         ELSE Uncaught("RuntimeError", "command returned non-zero exit status")
    /\ UNCHANGED <<subcommand, args, sessions, warnings, rawStatus, status>>
    /\ UNCHANGED <<prepareVars, loopVars>>

\* line 349: time.sleep(5)
ActivateSleep ==
    /\ pc = "activate_sleep"
    /\ events' = Append(events, Event("sleep", hostname, <<"5">>))
    /\ pc' = "activate_check"
    /\ UNCHANGED <<subcommand, args, sessions, result, warnings, rawStatus, status>>
    /\ UNCHANGED <<prepareVars, loopVars>>

\* the replies to `ceph osd stat` that activate is run against: a timeout,
\* an unhealthy cluster, a count that is not a number
ActivateStatusSamples ==
    {RawNone,
     RawObject([k \in {"num_osds", "num_up_osds", "num_in_osds", "full", "nearfull"} |->
                  CASE k = "num_osds" -> JInt(3)
                    [] k = "num_up_osds" -> JInt(2)
                    [] k = "num_in_osds" -> JInt(1)
                    [] OTHER -> JStr("true")]),
     RawObject([k \in {"num_osds"} |-> JStr("junk")])}

\* line 350: catch_osd_errors; what it raises leaves activate
ActivateCatchOsdErrors ==
    /\ pc = "activate_check"
    /\ \E raw \in ActivateStatusSamples :
         LET r == catch_osd_errors(raw)
         IN  /\ rawStatus' = raw
             /\ status' = osd_status_check(raw).val
             /\ events' = events \o <<Event("which", hostname, <<"ceph">>),
                                      Event("check", hostname, StatCommand(args.cluster))>>
             /\ warnings' = warnings \o r.warned
             /\ IF r.exc # None
                THEN Uncaught(r.exc, "")
                ELSE pc' = "activate_enable" /\ result' = result
    /\ UNCHANGED <<subcommand, args, sessions>>
    /\ UNCHANGED <<prepareVars, loopVars>>

\* the unit enabled whatever the init system is
enable_service_always(init) == <<"ceph.target">>

\* lines 352-355: the unit that is enabled, if any
enable_service(init) ==
    IF init = "systemd" THEN <<"ceph.target">>
    ELSE IF init = "sysvinit" THEN <<"ceph">>
    ELSE <<>>

\* lines 352-357: enable the service, close the connection
ActivateEnableAndExit ==
    /\ pc = "activate_enable"
    /\ events' = events
                 \o [i \in 1..Len(enable_service(distro_init)) |->
                       Event("enable_service", hostname, <<enable_service(distro_init)[i]>>)]
                 \o <<Event("exit", hostname, <<>>)>>
    /\ sessions' = sessions \ {hostname}
    /\ NextTuple("activate")
    /\ UNCHANGED <<subcommand, args, result, warnings, rawStatus, status, distro_init>>
    /\ UNCHANGED <<prepareVars, listVars>>

\* lines 362-370: the tuple is tested when the loop reaches it, then
\* hosts.get connects
ZapCheckAndConnect ==
    /\ pc = "disk_zap"
    /\ idx <= Len(args.disk)
    /\ IF ~Truthy(disk) \/ ~Truthy(hostname)
       THEN /\ Uncaught("RuntimeError", "zap command needs both HOSTNAME and DISK")
            /\ UNCHANGED <<sessions, events>>
       ELSE /\ sessions' = sessions \cup {hostname}
            /\ events' = Append(events, Event("connect", hostname, <<>>))
            /\ pc' = "zap_zeroing"
            /\ result' = result
    /\ UNCHANGED <<subcommand, args, warnings, rawStatus, status>>
    /\ UNCHANGED <<prepareVars, loopVars>>

\* line 362: the list is exhausted, disk_zap returns
ZapReturn ==
    /\ pc = "disk_zap"
    /\ idx > Len(args.disk)
    /\ pc' = "done"
    /\ result' = Returned
    /\ UNCHANGED <<subcommand, args, sessions, events, warnings, rawStatus, status>>
    /\ UNCHANGED <<prepareVars, loopVars>>

\* the disk is not zeroed before the zap command
ZapZeroing_Skipped ==
    /\ pc = "zap_zeroing"
    /\ pc' = "zap_run"
    /\ UNCHANGED <<subcommand, args, sessions, events, result, warnings, rawStatus, status>>
    /\ UNCHANGED <<prepareVars, loopVars>>

\* line 378: the remote zeroing of the disk; a remote failure raises
ZapZeroing ==
    /\ pc = "zap_zeroing"
    /\ events' = Append(events, Event("zeroing", hostname, <<disk>>))
    /\ \E ok \in BOOLEAN :
         IF ok
         THEN pc' = "zap_run" /\ result' = result
         ELSE Uncaught("RuntimeError", "zeroing failed")
    /\ UNCHANGED <<subcommand, args, sessions, warnings, rawStatus, status>>
    /\ UNCHANGED <<prepareVars, loopVars>>

\* lines 380-388: the zap command; a non-zero exit raises
ZapRun ==
    /\ pc = "zap_run"
    /\ events' = events \o <<Event("which", hostname, <<"ceph-disk">>),
                             Event("run", hostname, <<"ceph-disk", "zap", disk>>)>>
    /\ \E ok \in BOOLEAN :
         IF ok
         THEN pc' = "zap_exit" /\ result' = result
         ELSE Uncaught("RuntimeError", "command returned non-zero exit status")
    /\ UNCHANGED <<subcommand, args, sessions, warnings, rawStatus, status>>
    /\ UNCHANGED <<prepareVars, loopVars>>

\* line 390: distro.conn.exit()
ZapExit ==
    /\ pc = "zap_exit"
    /\ events' = Append(events, Event("exit", hostname, <<>>))
    /\ sessions' = sessions \ {hostname}
    /\ NextTuple("disk_zap")
    /\ UNCHANGED <<subcommand, args, result, warnings, rawStatus, status, distro_init>>
    /\ UNCHANGED <<prepareVars, listVars>>

\* lines 394-398: the next tuple, hosts.get connects
DiskListConnect ==
    /\ pc = "disk_list"
    /\ idx <= Len(args.disk)
    /\ sessions' = sessions \cup {hostname}
    /\ events' = Append(events, Event("connect", hostname, <<>>))
    /\ pc' = "disk_list_run"
    /\ UNCHANGED <<subcommand, args, result, warnings, rawStatus, status>>
    /\ UNCHANGED <<prepareVars, loopVars>>

\* line 394: the list is exhausted, disk_list returns
DiskListReturn ==
    /\ pc = "disk_list"
    /\ idx > Len(args.disk)
    /\ pc' = "done"
    /\ result' = Returned
    /\ UNCHANGED <<subcommand, args, sessions, events, warnings, rawStatus, status>>
    /\ UNCHANGED <<prepareVars, loopVars>>

\* lines 407-416: the list command, then the connection is closed
DiskListRunAndExit ==
    /\ pc = "disk_list_run"
    /\ \E ok \in BOOLEAN :
         IF ok
         THEN /\ events' = events \o <<Event("which", hostname, <<"ceph-disk">>),
                                       Event("run", hostname, <<"ceph-disk", "list">>),
                                       Event("exit", hostname, <<>>)>>
              /\ sessions' = sessions \ {hostname}
              /\ NextTuple("disk_list")
              /\ result' = result
         ELSE /\ events' = events \o <<Event("which", hostname, <<"ceph-disk">>),
                                       Event("run", hostname, <<"ceph-disk", "list">>)>>
              /\ Uncaught("RuntimeError", "command returned non-zero exit status")
              /\ UNCHANGED <<sessions, idx>>
    /\ UNCHANGED <<subcommand, args, warnings, rawStatus, status, distro_init>>
    /\ UNCHANGED <<prepareVars, listVars>>

\* --------------------------------------------------------------- osd_list
\* a line of text is a sequence of pieces: separators (a space, a comma) and
\* words; adjacent words read as one word
Separators == {" ", ","}

\* re.split(r'[,\s]+', line) from piece i on: a run of separators ends the
\* field, so a leading or trailing separator leaves an empty field
RECURSIVE SplitFrom(_, _, _, _)
SplitFrom(line, i, fields, inSeparator) ==
    IF i > Len(line) THEN fields
    ELSE IF line[i] \in Separators
         THEN SplitFrom(line, i + 1,
                        IF inSeparator THEN fields ELSE Append(fields, ""), TRUE)
         ELSE SplitFrom(line, i + 1,
                        [fields EXCEPT ![Len(fields)] = @ \o line[i]], FALSE)

\* line 514: re.split(r'[,\s]+', line); the empty line gives ['']
Split(line) == SplitFrom(line, 1, <<"">>, FALSE)

\* lines 513-518 from line i on: line_parts[1] is read for the first part of
\* every line, before the part is compared
RECURSIVE MountFrom(_, _, _)
MountFrom(lines, i, name) ==
    IF i > Len(lines) THEN [exc |-> None, val |-> None]
    ELSE LET line_parts == Split(lines[i])
         IN  IF Len(line_parts) < 2 THEN [exc |-> "IndexError", val |-> None]
             ELSE IF \E j \in 1..Len(line_parts) : line_parts[j] = name
                  THEN [exc |-> None, val |-> line_parts[2]]
                  ELSE MountFrom(lines, i + 1, name)

\* get_osd_mount_point, lines 488-518
get_osd_mount_point(lines, name) == MountFrom(lines, 1, name)

\* the example line of the specification, and the same line as the docstring
\* of get_osd_mount_point has it (lines 500, 501), indented by a space
ExampleLine ==
    <<"/dev/sdb1", " ", "ceph", " ", "data", ",", " ", "active", ",", " ", "cluster", " ",
      "ceph", ",", " ", "osd.1", ",", " ", "journal", " ", "/dev/sdb2">>
DocstringLine == <<" ">> \o ExampleLine
DocstringHeader == <<"/dev/sdb", " ", ":">>

\* the listings `ceph-disk list` is taken to print in a run of osd_list:
\* nothing, the docstring's listing, the example line alone, a blank line
\* after the header
OutputSamples ==
    {<<>>, <<DocstringHeader, DocstringLine>>, <<ExampleLine>>, <<DocstringHeader, <<>>>>}

\* JSON: the array of node objects of `ceph osd tree`
JNodes(nodes) == [t |-> "nodes", v |-> nodes]

Node(id, name, st, reweight) == [id |-> id, name |-> name, status |-> st, reweight |-> reweight]

\* the replies to `ceph osd tree` that osd_list is run against: a timeout,
\* malformed JSON, a tree with a host node and osd.1, a tree with osd.0 only
TreeSamples ==
    {RawNone, RawGarbage,
     RawObject([k \in {"nodes"} |->
                  JNodes(<<Node(-2, "h1", "", ""), Node(1, "osd.1", "up", "1.0")>>)]),
     RawObject([k \in {"nodes"} |-> JNodes(<<Node(0, "osd.0", "down", "0.5")>>)])}

\* an entry of the OSD directory: its name as the dash-separated segments,
\* the interesting files it holds with their first lines, and what its
\* journal link resolves to
Entry(name, files, journal) == [name |-> name, files |-> files, journal |-> journal]

OsdEntries ==
    {Entry(<<"ceph", "1">>, [f \in {"active", "whoami"} |-> IF f = "active" THEN "ok" ELSE "1"],
           "/dev/sdb2"),
     Entry(<<"ceph", "0">>, [f \in {} |-> ""], None),
     Entry(<<"my", "cluster", "1">>,
           [f \in {"active", "magic", "whoami", "journal_uuid"} |->
              CASE f = "active" -> "ok"
                [] f = "magic" -> "ceph osd volume v026"
                [] f = "whoami" -> "1"
                [] OTHER -> "uuid-1"],
           None)}

\* what listdir returns
Listings == UNION {[1..n -> OsdEntries] : n \in 0..MaxOsdDirs}

\* line 433
interesting_files == <<"active", "magic", "whoami", "journal_uuid">>

\* line 452: int(_osd.split('-')[-1])
entry_id(entry) == DecimalValue[entry.name[Len(entry.name)]]

\* '%s' of a small integer
DecimalString == [n \in 0..3 |-> <<"0", "1", "2", "3">>[n + 1]]

\* the monitor that mon.get_mon_initial_members names first
MonHost == "mon1"

\* the `ceph osd tree` command of osd_tree, lines 62-69
TreeCommand(cluster) == <<"ceph", "--cluster=" \o cluster, "osd", "tree", "--format=json">>

\* lines 420-428: connect to the first monitor
OsdListConnectMon ==
    /\ pc = "osd_list"
    /\ sessions' = sessions \cup {MonHost}
    /\ events' = Append(events, Event("connect", MonHost, <<>>))
    /\ pc' = "osd_list_tree"
    /\ UNCHANGED <<subcommand, args, result, warnings, rawStatus, status>>
    /\ UNCHANGED <<prepareVars, loopVars>>

\* line 430: tree = osd_tree(...); what osd_tree raises leaves osd_list
OsdListTree ==
    /\ pc = "osd_list_tree"
    /\ \E raw \in TreeSamples :
         /\ rawStatus' = raw
         /\ status' = osd_tree(raw).val
         /\ events' = events \o <<Event("which", MonHost, <<"ceph">>),
                                  Event("check", MonHost, TreeCommand(args.cluster))>>
         /\ IF osd_tree(raw).exc # None
            THEN Uncaught(osd_tree(raw).exc, "")
            ELSE pc' = "osd_list_exit_mon" /\ result' = result
    /\ UNCHANGED <<subcommand, args, sessions, warnings>>
    /\ UNCHANGED <<prepareVars, loopVars>>

\* the monitor's connection is left open
OsdListExitMon_LeftOpen ==
    /\ pc = "osd_list_exit_mon"
    /\ pc' = "osd_list_loop"
    /\ UNCHANGED <<subcommand, args, sessions, events, result, warnings, rawStatus, status>>
    /\ UNCHANGED <<prepareVars, loopVars>>

\* line 431: distro.conn.exit()
OsdListExitMon ==
    /\ pc = "osd_list_exit_mon"
    /\ sessions' = sessions \ {MonHost}
    /\ events' = Append(events, Event("exit", MonHost, <<>>))
    /\ pc' = "osd_list_loop"
    /\ UNCHANGED <<subcommand, args, result, warnings, rawStatus, status>>
    /\ UNCHANGED <<prepareVars, loopVars>>

\* lines 435-447: the next tuple: connect, list the OSD directory, run
\* `ceph-disk list`
OsdListConnect ==
    /\ pc = "osd_list_loop"
    /\ idx <= Len(args.disk)
    /\ sessions' = sessions \cup {hostname}
    /\ osd_dirs' \in Listings
    /\ output' \in OutputSamples
    /\ events' = events \o <<Event("connect", hostname, <<>>),
                             Event("listdir", hostname, <<"/var/lib/ceph/osd">>),
                             Event("which", hostname, <<"ceph-disk">>),
                             Event("check", hostname, <<"ceph-disk", "list">>)>>
    /\ oidx' = 1
    /\ pc' = "osd_list_entry"
    /\ UNCHANGED <<subcommand, args, result, warnings, rawStatus, status>>
    /\ UNCHANGED <<prepareVars, idx, distro_init, records, osd_name, mount>>

\* line 435: the list is exhausted, osd_list returns
OsdListReturn ==
    /\ pc = "osd_list_loop"
    /\ idx > Len(args.disk)
    /\ pc' = "done"
    /\ result' = Returned
    /\ UNCHANGED <<subcommand, args, sessions, events, warnings, rawStatus, status>>
    /\ UNCHANGED <<prepareVars, loopVars>>

\* lines 463-470: the files and the journal link looked for under an entry;
\* what readline and get_realpath return for those found is in the metadata
FileEvents(h) == <<Event("path_exists", h, interesting_files \o <<"journal">>)>>

\* lines 463-466: the metadata the files give, in insertion order
RECURSIVE FileMetadata(_, _)
FileMetadata(entry, i) ==
    IF i > Len(interesting_files) THEN <<>>
    ELSE (IF interesting_files[i] \in DOMAIN entry.files
          THEN <<<<interesting_files[i], entry.files[interesting_files[i]]>>>>
          ELSE <<>>)
         \o FileMetadata(entry, i + 1)

\* lines 455-470: the metadata dictionary in insertion order
Metadata(entry, device) ==
    (IF Truthy(device) THEN <<<<"device", device>>>> ELSE <<>>)
    \o FileMetadata(entry, 1)
    \o (IF entry.journal # None THEN <<<<"journal path", entry.journal>>>> ELSE <<>>)

\* lines 456, 473-475: the last node of the tree whose id is _id, if any
json_blob(nodes, id) ==
    LET matches == {k \in 1..Len(nodes) : nodes[k].id = id}
    IN  IF matches = {} THEN <<>>
        ELSE <<nodes[CHOOSE k \in matches : \A m \in matches : k >= m]>>

\* print_osd, lines 521-538: what is logged for one entry
Record(h, entry, blob, metadata) ==
    [hostname |-> h, osd_path |-> entry.name, json_blob |-> blob, metadata |-> metadata]

\* lines 449-483: one entry of the directory; an IndexError of
\* get_osd_mount_point or the KeyError of tree['nodes'] leaves osd_list
OsdListEntry ==
    /\ pc = "osd_list_entry"
    /\ oidx <= Len(osd_dirs)
    /\ LET entry == osd_dirs[oidx]
           name == "osd." \o DecimalString[entry_id(entry)]
           device == get_osd_mount_point(output, name)
       IN  /\ osd_name' = name
           /\ mount' = device
           /\ IF device.exc # None
              THEN /\ Uncaught(device.exc, "list index out of range")
                   /\ UNCHANGED <<events, records, oidx>>
              ELSE /\ events' = events \o FileEvents(hostname)
                   /\ IF "nodes" \notin DOMAIN status
                      THEN /\ Uncaught("KeyError", "nodes")
                           /\ UNCHANGED <<records, oidx>>
                      ELSE /\ records' = Append(records,
                                 Record(hostname, entry,
                                        json_blob(status["nodes"].v, entry_id(entry)),
                                        Metadata(entry, device.val)))
                           /\ oidx' = oidx + 1
                           /\ UNCHANGED <<pc, result>>
    /\ UNCHANGED <<subcommand, args, sessions, warnings, rawStatus, status>>
    /\ UNCHANGED <<prepareVars, idx, distro_init, osd_dirs, output>>

\* line 485: the entries are done: distro.conn.exit(); the locals of the
\* iteration are dead
OsdListExit ==
    /\ pc = "osd_list_entry"
    /\ oidx > Len(osd_dirs)
    /\ events' = Append(events, Event("exit", hostname, <<>>))
    /\ sessions' = sessions \ {hostname}
    /\ osd_dirs' = <<>>
    /\ output' = <<>>
    /\ oidx' = 1
    /\ records' = <<>>
    /\ osd_name' = None
    /\ mount' = NoMount
    /\ NextTuple("osd_list_loop")
    /\ UNCHANGED <<subcommand, args, result, warnings, rawStatus, status, distro_init>>
    /\ UNCHANGED prepareVars

Next ==
    \/ ParseArgs
    \/ GetBootstrapOsdKey
    \/ CheckDataAndConnect
    \/ WriteConf
    \/ CreateOsdKeyring
    \/ PrepareDisk
    \/ Sleep
    \/ CatchOsdErrors
    \/ ExitSession
    \/ Finish
    \/ NewRun

Spec == Init /\ [][Next]_vars

\* ------------------------------------------------ one run of any subcommand
\* a single invocation of the tool with any of its subcommands, on hosts
\* without a bootstrap keyring
RunInit ==
    /\ runs = 1
    /\ subcommand = None
    /\ args = DefaultArgs
    /\ localKey \in LocalKeyVals
    /\ pc = "parse"
    /\ key = None
    /\ errors = 0
    /\ errorLog = <<>>
    /\ bootstrapped = {}
    /\ sessions = {}
    /\ events = <<>>
    /\ result = Running
    /\ keyring = [h \in Hosts |-> None]
    /\ keyWrites = [h \in Hosts |-> 0]
    /\ warnings = <<>>
    /\ rawStatus = RawNone
    /\ status = EmptyDict
    /\ LoopInit

RunNext ==
    \/ ParseArgs
    \/ GetBootstrapOsdKey
    \/ CheckDataAndConnect
    \/ WriteConf
    \/ CreateOsdKeyring
    \/ PrepareDisk
    \/ Sleep
    \/ CatchOsdErrors
    \/ ExitSession
    \/ Finish
    \/ OsdListConnectMon
    \/ OsdListTree
    \/ OsdListExitMon
    \/ OsdListConnect
    \/ OsdListReturn
    \/ OsdListEntry
    \/ OsdListExit
    \/ ParseDiskArgs
    \/ ActivateConnect
    \/ ActivateReturn
    \/ ActivateRun
    \/ ActivateSleep
    \/ ActivateCatchOsdErrors
    \/ ActivateEnableAndExit
    \/ ZapCheckAndConnect
    \/ ZapReturn
    \/ ZapZeroing
    \/ ZapRun
    \/ ZapExit
    \/ DiskListConnect
    \/ DiskListReturn
    \/ DiskListRunAndExit

SpecRun == RunInit /\ [][RunNext]_vars

\* ------------------------------------------- the status functions on their own
\* A second specification: Init draws what the status or tree query returns
\* from a bounded set of replies, and the actions apply osd_status_check,
\* osd_tree and catch_osd_errors to it.
Missing == [t |-> "missing", v |-> 0]

CountVals == {JInt(n) : n \in 0..MaxOsds}
                 \cup {JStr("1"), JStr("true"), JStr("junk"), JNull, Missing}
FlagVals == {JBool(TRUE), JBool(FALSE), JStr("true"), JStr("false"), JStr("junk"), Missing}
NodeVals == {JList, JStr("false"), Missing}

\* the JSON object holding the fields of f that are not Missing
DictOf(f) == [k \in {x \in DOMAIN f : f[x].t # "missing"} |-> f[k]]

StatusObjects ==
    {DictOf([k \in {"num_osds", "num_up_osds", "num_in_osds", "full", "nearfull"} |->
               CASE k = "num_osds" -> a
                 [] k = "num_up_osds" -> b
                 [] k = "num_in_osds" -> c
                 [] k = "full" -> d
                 [] OTHER -> e]) :
        a \in CountVals, b \in CountVals, c \in CountVals, d \in FlagVals, e \in FlagVals}

TreeObjects ==
    {DictOf([k \in {"nodes", "stray"} |-> IF k = "nodes" THEN a ELSE b]) :
        a \in NodeVals, b \in NodeVals}

RawReplies ==
    {RawNone, RawGarbage, RawNonObject}
        \cup {RawObject(d) : d \in StatusObjects \cup TreeObjects}

ResultOf(exc) == IF exc = None THEN Returned ELSE Raised(exc, "", 0)

HealthInit ==
    /\ runs = 1
    /\ subcommand = "prepare"
    /\ args = [cluster |-> "ceph", host |-> "h1", data |-> "/dev/sdb", journal |-> None,
               zap_disk |-> FALSE, dmcrypt |-> FALSE, filestore |-> FALSE,
               block_wal |-> None, block_db |-> None, disk |-> <<>>]
    /\ localKey = "key-A"
    /\ pc = "query"
    /\ key = "key-A"
    /\ errors = 0
    /\ errorLog = <<>>
    /\ bootstrapped = {}
    /\ sessions = {"h1"}
    /\ events = <<>>
    /\ result = Running
    /\ keyring = [h \in Hosts |-> None]
    /\ keyWrites = [h \in Hosts |-> 0]
    /\ warnings = <<>>
    /\ rawStatus \in RawReplies
    /\ status = EmptyDict
    /\ LoopInit

\* osd_status_check, lines 117-140
OsdStatusCheck ==
    /\ pc = "query"
    /\ status' = osd_status_check(rawStatus).val
    /\ result' = ResultOf(osd_status_check(rawStatus).exc)
    /\ pc' = "status_checked"
    /\ UNCHANGED <<runs, subcommand, args, localKey, key, errors, errorLog, bootstrapped, sessions,
                   events, keyring, keyWrites, warnings, rawStatus>>
    /\ UNCHANGED loopVars

\* osd_tree, lines 71-87
OsdTree ==
    /\ pc = "query"
    /\ status' = osd_tree(rawStatus).val
    /\ result' = ResultOf(osd_tree(rawStatus).exc)
    /\ pc' = "tree_checked"
    /\ UNCHANGED <<runs, subcommand, args, localKey, key, errors, errorLog, bootstrapped, sessions,
                   events, keyring, keyWrites, warnings, rawStatus>>
    /\ UNCHANGED loopVars

\* the object a call returned is the reply of the next call
StatusCheckAgain ==
    /\ pc = "status_checked"
    /\ result.state = "returned"
    /\ status' = osd_status_check(RawObject(status)).val
    /\ pc' = "status_rechecked"
    /\ UNCHANGED <<runs, subcommand, args, localKey, key, errors, errorLog, bootstrapped, sessions,
                   events, result, keyring, keyWrites, warnings, rawStatus>>
    /\ UNCHANGED loopVars

TreeAgain ==
    /\ pc = "tree_checked"
    /\ result.state = "returned"
    /\ status' = osd_tree(RawObject(status)).val
    /\ pc' = "tree_rechecked"
    /\ UNCHANGED <<runs, subcommand, args, localKey, key, errors, errorLog, bootstrapped, sessions,
                   events, result, keyring, keyWrites, warnings, rawStatus>>
    /\ UNCHANGED loopVars

\* catch_osd_errors, lines 143-176
HealthCheck ==
    /\ pc = "query"
    /\ status' = osd_status_check(rawStatus).val
    /\ warnings' = catch_osd_errors(rawStatus).warned
    /\ result' = ResultOf(catch_osd_errors(rawStatus).exc)
    /\ pc' = "health_checked"
    /\ UNCHANGED <<runs, subcommand, args, localKey, key, errors, errorLog, bootstrapped, sessions,
                   events, keyring, keyWrites, rawStatus>>
    /\ UNCHANGED loopVars

HealthNext ==
    \/ OsdStatusCheck
    \/ OsdTree
    \/ StatusCheckAgain
    \/ TreeAgain
    \/ HealthCheck

SpecHealth == HealthInit /\ [][HealthNext]_vars

\* ----------------------------------------- get_osd_mount_point on its own
\* the pieces the lines of a listing are made of
LineAtoms == Separators \cup {"osd.1", "0", "/dev/sdb1"}

Lines == UNION {[1..n -> LineAtoms] : n \in 0..MaxLineLen}

\* the outputs of `ceph-disk list`: every listing within the bounds, and
\* the sample listings
Outputs == UNION {[1..n -> Lines] : n \in 0..MaxLines} \cup OutputSamples

OsdNames == {"osd.1", "osd.10"}

MountInit ==
    /\ runs = 1
    /\ subcommand = "osd_list"
    /\ args = [DefaultArgs EXCEPT !.disk = <<<<"h1", "", None>>>>]
    /\ localKey = None
    /\ pc = "mount"
    /\ key = None
    /\ errors = 0
    /\ errorLog = <<>>
    /\ bootstrapped = {}
    /\ sessions = {"h1"}
    /\ events = <<>>
    /\ result = Running
    /\ keyring = [h \in Hosts |-> None]
    /\ keyWrites = [h \in Hosts |-> 0]
    /\ warnings = <<>>
    /\ rawStatus = RawNone
    /\ status = EmptyDict
    /\ idx = 1
    /\ distro_init = None
    /\ osd_dirs = <<>>
    /\ output \in Outputs
    /\ oidx = 1
    /\ records = <<>>
    /\ osd_name \in OsdNames
    /\ mount = NoMount

\* line 457: device = get_osd_mount_point(output, osd_name)
GetOsdMountPoint ==
    /\ pc = "mount"
    /\ mount' = get_osd_mount_point(output, osd_name)
    /\ result' = ResultOf(get_osd_mount_point(output, osd_name).exc)
    /\ pc' = "mounted"
    /\ UNCHANGED <<subcommand, args, sessions, events, warnings, rawStatus, status>>
    /\ UNCHANGED <<prepareVars, idx, distro_init, osd_dirs, output, oidx, records, osd_name>>

\* lines 458-460: if device: metadata['device'] = device
StoreDevice ==
    /\ pc = "mounted"
    /\ mount.exc = None
    /\ records' = <<IF Truthy(mount.val) THEN <<<<"device", mount.val>>>> ELSE <<>>>>
    /\ pc' = "stored"
    /\ UNCHANGED <<subcommand, args, sessions, events, result, warnings, rawStatus, status>>
    /\ UNCHANGED <<prepareVars, idx, distro_init, osd_dirs, output, oidx, osd_name, mount>>

MountNext ==
    \/ GetOsdMountPoint
    \/ StoreDevice

SpecMount == MountInit /\ [][MountNext]_vars

\* ------------------------------------------------------------------ claims
\* the positions of events with the given operation
\* the run is a prepare or a create
IsPrepareRun == subcommand \in {"prepare", "create"}

Positions(op) == {i \in 1..Len(events) : events[i].op = op}

\* a command dispatched through remoto.process.run or remoto.process.check
IsCommand(e) == e.op \in {"run", "check"}

NoCommandRun == \A i \in 1..Len(events) : ~IsCommand(events[i])

\* prepare_disk was entered (its first statement looks up ceph-volume)
PrepareDiskCalled ==
    \E i \in 1..Len(events) : events[i].op = "which" /\ events[i].argv = <<"ceph-volume">>

\* the ceph-volume command was dispatched
PrepareCommandRun == Positions("run") # {}

JournalError ==
    [exc |-> "RuntimeError",
     msg |-> "A journal lv or GPT partition must be specified when using filestore"]

\* C1: once prepare_disk has been called for a filestore request whose
\* journal is empty, the preparation has failed with the journal validation
\* error and no remote command has been dispatched.
C1_FilestoreWithoutJournalFailsValidation ==
    (args.filestore /\ ~Truthy(args.journal) /\ PrepareDiskCalled)
        => (errorLog = <<JournalError>> /\ NoCommandRun)

Stage(e) ==
    CASE e.op = "connect" -> 0
      [] e.op \in {"write_conf", "path_exists", "write_keyring"} -> 1
      [] e.op = "which" /\ e.argv = <<"ceph-volume">> -> 2
      [] e.op = "run" -> 2
      [] e.op = "sleep" -> 3
      [] e.op = "which" /\ e.argv = <<"ceph">> -> 4
      [] e.op = "check" -> 4
      [] OTHER -> 5

Failed == errorLog # <<>> \/ result.state = "raised"

\* C3: the events of a host's lifecycle occur in the order config write and
\* key ensure, preparation command, settle wait, health check; each stage
\* is entered only after the earlier stages have happened, and once a step
\* has failed no further step happens in that run.
C3_LifecycleOrder ==
    [][/\ \A i, j \in 1..Len(events') :
              i < j => Stage(events'[i]) <= Stage(events'[j])
       /\ \A i \in 1..Len(events') :
              \A st \in 0..(Stage(events'[i]) - 1) :
                  st < 4 => \E j \in 1..(i - 1) : Stage(events'[j]) = st
       /\ \A i \in 1..Len(events') :
              events'[i].op = "run"
                  => \E j, k \in 1..(i - 1) :
                        /\ events'[j].op = "write_conf"
                        /\ events'[k].op = "path_exists"
                        /\ j < k
       /\ (Failed /\ runs' = runs) => events' = events]_vars

C3_Witness ==
    /\ pc = "exit"
    /\ Positions("write_conf") # {}
    /\ Positions("run") # {}
    /\ Positions("sleep") # {}
    /\ Positions("check") # {}

\* C4: when the local bootstrap key file is missing, the run ends with the
\* configuration error of get_bootstrap_osd_key, which is not counted as a
\* host failure, and no session was opened and nothing was done on any host.
C4_MissingKeyAbortsBeforeAnyHost ==
    (localKey = None /\ pc \notin {"parse", "start"})
        => /\ pc = "done"
           /\ result = Raised("RuntimeError",
                              "bootstrap-osd keyring not found; run 'gatherkeys'", 0)
           /\ events = <<>>
           /\ sessions = {}
           /\ errors = 0
           /\ errorLog = <<>>

C4_Witness ==
    /\ localKey = None
    /\ pc = "done"
    /\ result.exc = "RuntimeError"

CreatingWarning == PlainWarning("osd keyring does not exist yet, creating one")

\* C5: a call of create_osd_keyring against a host whose keyring exists
\* writes nothing and warns about nothing; a call against a host without
\* one warns and attempts one write of the given key; no host ever sees a
\* second completed write.
C5_BootstrapEnsureIdempotent ==
    [][/\ (pc = "create_osd_keyring" /\ pc' # pc)
          => IF keyring[args.host] # None
             THEN /\ keyring' = keyring
                  /\ keyWrites' = keyWrites
                  /\ warnings' = warnings
                  /\ events' = Append(events, Event("path_exists", args.host, <<args.cluster>>))
             ELSE /\ warnings' = Append(warnings, CreatingWarning)
                  /\ events' = events \o
                        <<Event("path_exists", args.host, <<args.cluster>>),
                          Event("write_keyring", args.host, <<args.cluster, key>>)>>
                  /\ keyring'[args.host] \in {None, key}
       /\ \A h \in Hosts : keyWrites'[h] <= 1]_vars

\* the second call against a host the first call wrote to
C5_Witness ==
    /\ runs = 2
    /\ pc = "prepare_disk"
    /\ keyWrites[args.host] = 1
    /\ Positions("path_exists") # {}
    /\ Positions("write_keyring") = {}
    /\ warnings = <<>>

ZapWarning == PlainWarning("zapping is no longer supported when preparing")

\* C6: once prepare_disk has been called for an otherwise valid request
\* with the zap flag set, the deprecation warning has been logged and the
\* preparation command has been dispatched, without a zap argument and
\* without any zeroing on the host.
C6_ZapIsDeprecatedNoOp ==
    (args.zap_disk /\ ~args.dmcrypt /\ ~journal_missing(args.journal, storetype)
         /\ PrepareDiskCalled)
        => /\ \E i \in 1..Len(warnings) : warnings[i] = ZapWarning
           /\ PrepareCommandRun
           /\ \A i \in Positions("run") :
                  \A j \in 1..Len(events[i].argv) : events[i].argv[j] # "zap"
           /\ Positions("zeroing") = {}

\* C7: whatever the status query returned after a successful preparation,
\* the run ends as it does for a healthy cluster: it returns, and nothing
\* is added to the failure count.
C7_HealthCheckIsAdvisory ==
    (pc = "done" /\ Positions("sleep") # {})
        => (result = Returned /\ errors = 0)

\* C8: when the status query returns nothing at all (transport timeout),
\* osd_status_check returns the empty status without raising, and
\* catch_osd_errors returns having logged no warning.
C8_TimeoutGivesEmptyStatusAndNoWarning ==
    (rawStatus.kind = "none" /\ pc \in {"status_checked", "health_checked"})
        => /\ status = EmptyDict
           /\ result = Returned
           /\ warnings = <<>>

C8_Witness ==
    /\ rawStatus.kind = "none"
    /\ pc = "health_checked"
    /\ result = Returned

IsStr(x, str) == x.t = "str" /\ x.v = str
IsBool(x, b) == x.t = "bool" /\ x.v = b
Same(x, y) == x.t = y.t /\ x.v = y.v

\* C9: osd_status_check and osd_tree return an object with the keys of the
\* payload, in which the fields that were the strings "true" and "false"
\* are the booleans TRUE and FALSE and every other field is what it was;
\* applied to the object it returned, either function returns it unchanged.
C9_BooleanStringsBecomeBooleans ==
    [][/\ (pc = "query" /\ pc' \in {"status_checked", "tree_checked"}
              /\ rawStatus.kind = "object")
          => /\ result' = Returned
             /\ DOMAIN status' = DOMAIN rawStatus.obj
             /\ \A k \in DOMAIN rawStatus.obj :
                    IF IsStr(rawStatus.obj[k], "true") THEN IsBool(status'[k], TRUE)
                    ELSE IF IsStr(rawStatus.obj[k], "false") THEN IsBool(status'[k], FALSE)
                    ELSE Same(status'[k], rawStatus.obj[k])
       /\ (pc' \in {"status_rechecked", "tree_rechecked"} /\ pc' # pc)
          => status' = status]_vars

C9_Witness ==
    /\ pc = "status_rechecked"
    /\ "full" \in DOMAIN rawStatus.obj /\ IsStr(rawStatus.obj["full"], "true")
    /\ "nearfull" \in DOMAIN rawStatus.obj /\ IsStr(rawStatus.obj["nearfull"], "false")
    /\ "num_osds" \in DOMAIN rawStatus.obj /\ IsStr(rawStatus.obj["num_osds"], "1")
    /\ IsBool(status["full"], TRUE)
    /\ IsBool(status["nearfull"], FALSE)
    /\ IsStr(status["num_osds"], "1")

\* a reply that carries a status snapshot: no data at all, or an object
\* whose counts are integers or decimal strings and whose flags are booleans
\* or boolean strings, any of them possibly absent
IsCount(x) == x.t = "int" \/ (x.t = "str" /\ x.v \in DOMAIN DecimalValue)
IsFlag(x) == x.t = "bool" \/ IsStr(x, "true") \/ IsStr(x, "false")

IsSnapshot(raw) ==
    \/ raw.kind \in {"none", "garbage"}
    \/ /\ raw.kind = "object"
       /\ \A k \in DOMAIN raw.obj \cap {"num_osds", "num_up_osds", "num_in_osds"} :
              IsCount(raw.obj[k])
       /\ \A k \in DOMAIN raw.obj \cap {"full", "nearfull"} : IsFlag(raw.obj[k])
       /\ DOMAIN raw.obj \subseteq
              {"num_osds", "num_up_osds", "num_in_osds", "full", "nearfull"}

SnapshotCount(raw, k) ==
    IF k \notin DOMAIN raw.obj THEN 0
    ELSE IF raw.obj[k].t = "int" THEN raw.obj[k].v
    ELSE DecimalValue[raw.obj[k].v]

SnapshotFlag(raw, k) ==
    /\ k \in DOMAIN raw.obj
    /\ (IsBool(raw.obj[k], TRUE) \/ IsStr(raw.obj[k], "true"))

WarningsWith(fmt) == {i \in 1..Len(warnings) : warnings[i].fmt = fmt}

\* the warning about `difference` OSDs, as the claim words it
WordedWarning(fmt, difference) ==
    Warning(fmt, IF difference = 1 THEN "is" ELSE "are", difference,
            IF difference = 1 THEN "" ELSE "s")

\* C10: for a status snapshot, catch_osd_errors returns having logged one
\* 'down' warning for total - up exactly when up < total, one 'out' warning
\* for total - in exactly when in < total, 'OSDs are full!' exactly when
\* full is true and 'OSDs are near full!' exactly when nearfull is true;
\* the wording is "is 1 OSD" for a difference of 1 and "are N OSDs"
\* otherwise; absent counts are 0 and absent flags are false.
C10_WarningsMatchSnapshot ==
    (pc = "health_checked" /\ IsSnapshot(rawStatus))
        => LET total == SnapshotCount(rawStatus, "num_osds")
               up == SnapshotCount(rawStatus, "num_up_osds")
               in == SnapshotCount(rawStatus, "num_in_osds")
               down == WarningsWith("there %s %d OSD%s down")
               out == WarningsWith("there %s %d OSD%s out")
               full == WarningsWith("OSDs are full!")
               nearfull == WarningsWith("OSDs are near full!")
           IN  /\ result = Returned
               /\ Cardinality(down) = IF up < total THEN 1 ELSE 0
               /\ \A i \in down :
                      warnings[i] = WordedWarning("there %s %d OSD%s down", total - up)
               /\ Cardinality(out) = IF in < total THEN 1 ELSE 0
               /\ \A i \in out :
                      warnings[i] = WordedWarning("there %s %d OSD%s out", total - in)
               /\ Cardinality(full) = IF SnapshotFlag(rawStatus, "full") THEN 1 ELSE 0
               /\ Cardinality(nearfull) = IF SnapshotFlag(rawStatus, "nearfull") THEN 1 ELSE 0
               /\ Len(warnings) = Cardinality(down) + Cardinality(out)
                                    + Cardinality(full) + Cardinality(nearfull)

C10_Witness ==
    /\ pc = "health_checked"
    /\ IsSnapshot(rawStatus)
    /\ warnings = <<Warning("there %s %d OSD%s down", "is", 1, ""),
                    Warning("there %s %d OSD%s out", "are", 2, "s"),
                    PlainWarning("OSDs are full!")>>

\* the positions of a token in a command
TokenAt(argv, tok) == {j \in 1..Len(argv) : argv[j] = tok}

\* the option tok occurs once in the command and is followed by val
OptionIs(argv, tok, val) ==
    /\ Cardinality(TokenAt(argv, tok)) = 1
    /\ \A j \in TokenAt(argv, tok) : j < Len(argv) /\ argv[j + 1] = val

\* C11: a prepare/create run dispatches at most one command; its mode
\* token is 'create' for create and 'prepare' otherwise, it carries one
\* backend flag and the data path, --block.wal/--block.db exactly for
\* bluestore with the respective path given, --journal exactly for
\* filestore, with the given journal; and the command prepare_disk builds
\* for the same request in the other mode differs in the mode token only.
C11_PrepareCommandShape ==
    (subcommand \in {"prepare", "create"})
        => /\ Cardinality(Positions("run")) <= 1
           /\ \A i \in Positions("run") :
                  LET argv == events[i].argv
                      other == prepare_disk(args.cluster, args.data, args.journal,
                                            args.zap_disk, args.dmcrypt, storetype,
                                            args.block_wal, args.block_db, ~create).argv
                  IN  /\ argv[5] = (IF subcommand = "create" THEN "create" ELSE "prepare")
                      /\ TokenAt(argv, "create") \cup TokenAt(argv, "prepare") = {5}
                      /\ Cardinality(TokenAt(argv, "--bluestore")
                                         \cup TokenAt(argv, "--filestore")) = 1
                      /\ TokenAt(argv, IF args.filestore THEN "--filestore"
                                       ELSE "--bluestore") # {}
                      /\ OptionIs(argv, "--data", args.data)
                      /\ IF ~args.filestore /\ Truthy(args.block_wal)
                         THEN OptionIs(argv, "--block.wal", args.block_wal)
                         ELSE TokenAt(argv, "--block.wal") = {}
                      /\ IF ~args.filestore /\ Truthy(args.block_db)
                         THEN OptionIs(argv, "--block.db", args.block_db)
                         ELSE TokenAt(argv, "--block.db") = {}
                      /\ IF args.filestore
                         THEN Truthy(args.journal) /\ OptionIs(argv, "--journal", args.journal)
                         ELSE TokenAt(argv, "--journal") = {}
                      /\ Len(other) = Len(argv)
                      /\ \A j \in 1..Len(argv) : (j # 5) => other[j] = argv[j]
                      /\ other[5] # argv[5]

C11_Witness ==
    /\ subcommand = "create"
    /\ ~args.filestore
    /\ Truthy(args.journal)
    /\ Truthy(args.block_wal)
    /\ Truthy(args.block_db)
    /\ PrepareCommandRun

C20_SessionClosedOnEveryPath ==
    (IsPrepareRun /\ pc = "done") => sessions = {}

\* the tuple of args.disk that the event at position i belongs to: the
\* number of data-host connections opened up to i
TupleOf(i) == Cardinality({j \in 1..i : events[j].op = "connect" /\ events[j].host \in Hosts})

\* the events of the k-th tuple, in order
EventsOfTuple(k) ==
    LET P == {i \in 1..Len(events) : TupleOf(i) = k}
        first == CHOOSE i \in P : \A j \in P : i <= j
    IN  IF P = {} THEN <<>> ELSE [j \in 1..Cardinality(P) |-> events[first + j - 1]]

IsPrefix(p, q) == Len(p) <= Len(q) /\ \A i \in 1..Len(p) : p[i] = q[i]

\* the steps of one activate tuple as the specification orders them
ActivateSteps(h, d, init) ==
    <<Event("connect", h, <<>>),
      Event("which", h, <<"ceph-disk">>),
      Event("run", h, <<"ceph-disk", "-v", "activate", "--mark-init", init, "--mount", d>>),
      Event("sleep", h, <<"5">>),
      Event("which", h, <<"ceph">>),
      Event("check", h, StatCommand(args.cluster))>>
    \o (CASE init = "systemd" -> <<Event("enable_service", h, <<"ceph.target">>)>>
          [] init = "sysvinit" -> <<Event("enable_service", h, <<"ceph">>)>>
          [] OTHER -> <<>>)
    \o <<Event("exit", h, <<>>)>>

\* C16: in an activate run the events of every tuple are an initial part of:
\* activation command with the detected init system and the tuple's disk as
\* mount argument, settle wait, health verification, enabling of
\* 'ceph.target' (systemd) or 'ceph' (sysvinit), exit; the tuples before the
\* current one went through all of it, and a service is enabled only after
\* the activation command, the wait and the verification of the same tuple.
C16_ActivateStepOrder ==
    (subcommand = "activate")
        => /\ TupleOf(Len(events)) <= Len(args.disk)
           /\ \A k \in 1..TupleOf(Len(events)) :
                  \E init \in InitSystems :
                      LET steps == ActivateSteps(args.disk[k][1], args.disk[k][2], init)
                      IN  /\ IsPrefix(EventsOfTuple(k), steps)
                          /\ (k < TupleOf(Len(events))) => EventsOfTuple(k) = steps
           /\ \A i \in Positions("enable_service") :
                  \E r, w, c \in 1..(i - 1) :
                      /\ r < w /\ w < c
                      /\ events[r].op = "run" /\ events[w].op = "sleep" /\ events[c].op = "check"
                      /\ TupleOf(r) = TupleOf(i)
           /\ (pc = "done" /\ result.state = "raised")
                  => \A i \in Positions("enable_service") : TupleOf(i) < TupleOf(Len(events))

C16_Witness ==
    /\ subcommand = "activate"
    /\ pc = "done"
    /\ result = Returned
    /\ \E i, j \in Positions("enable_service") :
           /\ i < j
           /\ events[i].argv = <<"ceph">>
           /\ events[j].argv = <<"ceph.target">>

\* a tuple with an empty host or an empty disk
EmptyTuple(t) == ~Truthy(t[1]) \/ ~Truthy(t[2])

\* C17: in a zap or activate run whose list holds a tuple with an empty
\* host or disk, nothing is ever done on any host and no session is ever
\* opened, and the run ends by raising.
C17_EmptyTupleRejectedBeforeContact ==
    (/\ subcommand \in {"activate", "disk_zap"}
     /\ \E k \in 1..Len(args.disk) : EmptyTuple(args.disk[k]))
        => /\ events = <<>>
           /\ sessions = {}
           /\ (pc = "done") => result.state = "raised"

\* the id of the entry a record was printed for
RecordId(r) == DecimalValue[r.osd_path[Len(r.osd_path)]]

\* the nodes of the tree that osd_tree returned, none for the empty result
TreeNodes == IF "nodes" \in DOMAIN status THEN status["nodes"].v ELSE <<>>

\* C12: in an osd_list run whose tree query returned malformed JSON or a
\* tree, no KeyError ends the run, an entry that was reached has its record,
\* and the record of an OSD without a node in the tree has the empty
\* fallback object.
C12_TreeNeverFailsInventory ==
    (subcommand = "osd_list" /\ rawStatus.kind \in {"garbage", "object"})
        => /\ result.exc # "KeyError"
           /\ (pc = "done" /\ mount.exc = None) => Len(records) = Len(osd_dirs)
           /\ \A k \in 1..Len(records) :
                  (\A n \in 1..Len(TreeNodes) : TreeNodes[n].id # RecordId(records[k]))
                      => records[k].json_blob = <<>>

\* the lines of the output with a field equal to the name
MatchingLines(lines, name) ==
    {i \in 1..Len(lines) : \E j \in 1..Len(Split(lines[i])) : Split(lines[i])[j] = name}

\* C13: get_osd_mount_point raises nothing; it returns nothing when no line
\* has a field equal to the name, and otherwise the second field of the
\* first such line; for the example line and osd.1 it returns the device
\* /dev/sdb1.
C13_MountPointOfFirstMatchingLine ==
    (pc = "mounted")
        => LET M == MatchingLines(output, osd_name)
               first == CHOOSE i \in M : \A j \in M : i <= j
           IN  /\ mount.exc = None
               /\ (M = {}) => mount.val = None
               /\ (M # {} /\ Len(Split(output[first])) >= 2)
                      => mount.val = Split(output[first])[2]
               /\ (output = <<ExampleLine>> /\ osd_name = "osd.1")
                      => mount.val = "/dev/sdb1"

\* the metadata keys that come from the interesting files
IsFileKey(pair) == \E i \in 1..Len(interesting_files) : interesting_files[i] = pair[1]

\* the files of an entry that exist, in the order active, magic, whoami,
\* journal_uuid, with their contents
ExistingFiles(entry) ==
    LET present(i) == interesting_files[i] \in DOMAIN entry.files
        pair(i) == <<interesting_files[i], entry.files[interesting_files[i]]>>
    IN  (IF present(1) THEN <<pair(1)>> ELSE <<>>)
        \o (IF present(2) THEN <<pair(2)>> ELSE <<>>)
        \o (IF present(3) THEN <<pair(3)>> ELSE <<>>)
        \o (IF present(4) THEN <<pair(4)>> ELSE <<>>)

\* C14: in an osd_list run the records of the current host are, in listing
\* order, those of its directory entries: the k-th record is for the k-th
\* entry, its cluster fields are those of the tree node with the entry's
\* trailing segment as id, its metadata holds the device if one was found,
\* then the existing interesting files in order, then the journal path if
\* there is one; and when the run has ended every entry has its record.
C14_OneRecordPerEntry ==
    (subcommand = "osd_list")
        => /\ Len(records) <= Len(osd_dirs)
           /\ \A k \in 1..Len(records) :
                  LET r == records[k]
                      e == osd_dirs[k]
                      id == DecimalValue[e.name[Len(e.name)]]
                  IN  /\ r.hostname = hostname
                      /\ r.osd_path = e.name
                      /\ \A n \in 1..Len(TreeNodes) :
                             TreeNodes[n].id = id => r.json_blob = <<TreeNodes[n]>>
                      /\ \A n \in 1..Len(r.json_blob) : r.json_blob[n].id = id
                      /\ SelectSeq(r.metadata, IsFileKey) = ExistingFiles(e)
                      /\ \A m \in 1..Len(r.metadata) :
                             /\ r.metadata[m][1] = "device" => m = 1
                             /\ r.metadata[m][1] = "journal path"
                                    => (m = Len(r.metadata) /\ r.metadata[m][2] = e.journal)
                             /\ r.metadata[m][1] \in {"device", "journal path"}
                                    \/ IsFileKey(r.metadata[m])
                      /\ (e.journal # None)
                             => r.metadata[Len(r.metadata)][1] = "journal path"
           /\ (pc = "done") => Len(records) = Len(osd_dirs)

\* operations that read
ReadOnlyOps == {"connect", "which", "check", "listdir", "path_exists", "exit"}

\* C15: an osd_list run issues only operations that read, whatever the
\* listing is no IndexError ends the run, and the record of an OSD that no
\* line of the listing names has no device.
C15_InventoryReadOnlyAndTolerant ==
    (subcommand = "osd_list")
        => /\ \A i \in 1..Len(events) : events[i].op \in ReadOnlyOps
           /\ Positions("run") = {}
           /\ result.exc # "IndexError"
           /\ \A k \in 1..Len(records) :
                  (MatchingLines(output, "osd." \o DecimalString[RecordId(records[k])]) = {})
                      => \A m \in 1..Len(records[k].metadata) :
                             records[k].metadata[m][1] # "device"

ConnectPositions == Positions("connect")

\* C19: at most one session is open; between two connections the session of
\* the first has been closed; the sessions open are those connected to and
\* not closed since; the data hosts are connected to in the order of
\* args.disk (the single host args.host for prepare/create), and in osd_list
\* after the monitor, whose session is closed first.
C19_OneSessionAtATimeInOrder ==
    /\ Cardinality(sessions) <= 1
    /\ \A i, j \in ConnectPositions :
           i < j => \E e \in (i + 1)..(j - 1) :
                        events[e].op = "exit" /\ events[e].host = events[i].host
    /\ sessions = {events[i].host : i \in {c \in ConnectPositions :
                      \A e \in (c + 1)..Len(events) : events[e].op # "exit"}}
    /\ \A i \in ConnectPositions :
           CASE subcommand \in {"prepare", "create"} -> events[i].host = args.host
             [] subcommand = "osd_list" /\ i = 1 -> events[i].host = MonHost
             [] OTHER -> /\ TupleOf(i) \in 1..Len(args.disk)
                         /\ events[i].host = args.disk[TupleOf(i)][1]
    /\ (subcommand = "osd_list" /\ events # <<>>) => events[1].op = "connect"

C19_Witness ==
    /\ subcommand = "osd_list"
    /\ pc = "done"
    /\ result = Returned
    /\ Len(args.disk) = 2
    /\ args.disk[1][1] = "h2"
    /\ args.disk[2][1] = "h1"
    /\ Cardinality(ConnectPositions) = 3
    /\ sessions = {}

\* C21: when an activate run has ended, every tuple of the batch has been
\* attempted (a session to its host was opened), whether or not an earlier
\* tuple failed.
C21_ActivateTuplesIndependent ==
    (subcommand = "activate" /\ pc = "done")
        => TupleOf(Len(events)) = Len(args.disk)

\* the steps of one zap tuple
ZapSteps(h, d) ==
    <<Event("connect", h, <<>>),
      Event("zeroing", h, <<d>>),
      Event("which", h, <<"ceph-disk">>),
      Event("run", h, <<"ceph-disk", "zap", d>>),
      Event("exit", h, <<>>)>>

\* C22: in a disk_zap run the events of every tuple are an initial part of
\* connect, zeroing of its disk, zap command for its disk, exit, so every
\* zap command follows the zeroing of the same disk on the same host; the
\* tuples are taken in the order of the list; a failed zeroing is the last
\* thing the run does; and when the run has failed at tuple k the tuples
\* before k have been zeroed and zapped in full and none after k was touched.
C22_ZapZeroesThenZapsInOrder ==
    (subcommand = "disk_zap")
        => /\ TupleOf(Len(events)) <= Len(args.disk)
           /\ TupleOf(Len(events)) \in {idx - 1, idx}
           /\ \A k \in 1..TupleOf(Len(events)) :
                  LET steps == ZapSteps(args.disk[k][1], args.disk[k][2])
                  IN  /\ IsPrefix(EventsOfTuple(k), steps)
                      /\ (k < idx) => EventsOfTuple(k) = steps
           /\ \A r \in Positions("run") :
                  \E z \in 1..(r - 1) :
                      /\ events[z].op = "zeroing"
                      /\ TupleOf(z) = TupleOf(r)
                      /\ events[z].host = events[r].host
                      /\ events[z].argv = <<events[r].argv[3]>>
           /\ (result.msg = "zeroing failed")
                  => /\ events[Len(events)].op = "zeroing"
                     /\ Cardinality(Positions("run")) = idx - 1
           /\ (pc = "done" /\ result.state = "raised")
                  => /\ idx <= Len(args.disk)
                     /\ Cardinality({i \in Positions("exit") : TupleOf(i) < idx}) = idx - 1
                     /\ \A i \in 1..Len(events) : TupleOf(i) <= idx

C22_Witness ==
    /\ subcommand = "disk_zap"
    /\ pc = "done"
    /\ result = Raised("RuntimeError", "command returned non-zero exit status", 0)
    /\ idx = 2
    /\ EventsOfTuple(1) = ZapSteps(args.disk[1][1], args.disk[1][2])
    /\ Cardinality(Positions("zeroing")) = 2
    /\ Cardinality(Positions("run")) = 2
====
